---- MODULE Spec2Model ----
(***************************************************************************)
(* PixelLens (src/src/App.jsx): the persistent signed-URL cache, the       *)
(* hourly expiration sweep, the favorites initialiser and the gallery      *)
(* loader (getImageUrl / loadImagesFromS3), as a state machine.            *)
(*                                                                         *)
(* Time is Date.now() in milliseconds.  localStorage holds two records     *)
(* (the cache and the favorites), each modelled as a text: absent,         *)
(* non-JSON text, or the serialisation of a JSON value.  The in-memory     *)
(* cache is the Map of createPersistentImageCache, a function from keys to *)
(* values.  Every asynchronous call (the listing call, each getSignedUrl)  *)
(* is in flight until an action resolves or rejects it; the code that runs *)
(* after an await runs in the same action as the settlement it waits for.  *)
(***************************************************************************)
EXTENDS Integers, Sequences, FiniteSets, TLC

\* ------------------------------------------------------------------ bounds
\* How often the clock moves, how many times loadImagesFromS3 is invoked,
\* how many times getImageUrl is called and how many times
\* localStorage.setItem throws in one run.
MaxTicks == 1
MaxLoads == 2
MaxUrlCalls == 3
MaxWriteFailures == 1

\* --------------------------------------------------------------- constants
IMAGE_URL_EXPIRATION == 3600000
SWEEP_INTERVAL == 3600000
\* The validity getSignedUrl is asked for, in seconds.
EXPIRES_IN == 3600

\* Date.now() when the page is opened; persisted entries are older than this.
StartTime == IMAGE_URL_EXPIRATION

\* How far the clock moves in one step.
TickSteps == {IMAGE_URL_EXPIRATION}

\* ------------------------------------------------------------- JSON values
Null == [t |-> "null"]
Str(cs) == [t |-> "str", chars |-> cs]
Arr(xs) == [t |-> "arr", items |-> xs]
Obj(ps) == [t |-> "obj", pairs |-> ps]
\* The JSON object {url, timestamp} that getImageUrl stores.
Entry(u, ts) == [t |-> "entry", url |-> u, timestamp |-> ts]

\* A localStorage item: getItem gives null (absent), or a text.
Absent == [kind |-> "absent"]
Garbage == [kind |-> "garbage"]
Json(v) == [kind |-> "json", v |-> v]

\* The url getSignedUrl returns for a key: it carries the signing time.
SignedUrl(key, at) == <<key, at>>
NoUrl == <<>>

\* JSON.parse: throws on text that is not JSON.
JSONparse(text) ==
  IF text.kind = "json" THEN [threw |-> FALSE, v |-> text.v]
  ELSE [threw |-> TRUE, v |-> Null]

\* Property names of array indices and string positions.
IndexName == <<"0", "1", "2">>

\* Object.entries: throws a TypeError on null, lists the characters of a
\* string and the items of an array under their indices, and the own
\* properties of an object.
ObjectEntries(v) ==
  CASE v.t = "null" -> [threw |-> TRUE, pairs |-> <<>>]
    [] v.t = "str" ->
         [threw |-> FALSE,
          pairs |-> [i \in 1..Len(v.chars) |-> <<IndexName[i], Str(<<v.chars[i]>>)>>]]
    [] v.t = "arr" ->
         [threw |-> FALSE,
          pairs |-> [i \in 1..Len(v.items) |-> <<IndexName[i], v.items[i]>>]]
    [] v.t = "obj" -> [threw |-> FALSE, pairs |-> v.pairs]
    [] OTHER -> [threw |-> FALSE, pairs |-> <<>>]

EmptyMap == [k \in {} |-> Null]

\* new Map(pairs): a later pair with the same key replaces an earlier one.
RECURSIVE NewMap(_)
NewMap(ps) ==
  IF ps = <<>> THEN EmptyMap
  ELSE LET m == NewMap(SubSeq(ps, 1, Len(ps) - 1))
           p == ps[Len(ps)]
       IN [k \in DOMAIN m \cup {p[1]} |-> IF k = p[1] THEN p[2] ELSE m[k]]

\* ------------------------------------------------- createPersistentImageCache
loadCache(text) ==
  IF text.kind = "absent" THEN Obj(<<>>)
  ELSE LET r == JSONparse(text)
       IN IF r.threw THEN Obj(<<>>) ELSE r.v

\* The constructor: new Map(Object.entries(loadCache())), outside any try.
createPersistentImageCache(text) ==
  LET es == ObjectEntries(loadCache(text))
  IN [threw |-> es.threw,
      cache |-> IF es.threw THEN EmptyMap ELSE NewMap(es.pairs)]

\* The order in which an object's properties are written out.
KeyOrder == <<"0", "1", "2", "a", "b", "c">>

\* Object.fromEntries(cache).
ObjectFromEntries(m) ==
  LET ks == SelectSeq(KeyOrder, LAMBDA k : k \in DOMAIN m)
  IN Obj([i \in 1..Len(ks) |-> <<ks[i], m[ks[i]]>>])

\* saveCache with a try that does not catch: the storage error escapes.
saveCacheUncaught(m, text, writeOK) ==
  IF writeOK THEN [threw |-> FALSE, text |-> Json(ObjectFromEntries(m))]
  ELSE [threw |-> TRUE, text |-> text]

\* saveCache: localStorage.setItem may throw (quota); the error is caught.
saveCache(m, text, writeOK) ==
  IF writeOK THEN [threw |-> FALSE, text |-> Json(ObjectFromEntries(m))]
  ELSE [threw |-> FALSE, text |-> text]

\* set without the write-through.
cacheSetNoSave(m, text, key, value, writeOK) ==
  [threw |-> FALSE,
   cache |-> [k \in DOMAIN m \cup {key} |-> IF k = key THEN value ELSE m[k]],
   text |-> text]

\* imageUrlCache.set: cache.set(key, value); saveCache().
cacheSet(m, text, key, value, writeOK) ==
  LET m2 == [k \in DOMAIN m \cup {key} |-> IF k = key THEN value ELSE m[k]]
      s == saveCache(m2, text, writeOK)
  IN [threw |-> s.threw, cache |-> m2, text |-> s.text]

\* imageUrlCache.clear: cache.clear(); localStorage.removeItem(CACHE_KEY).
cacheClear(m, text) == [cache |-> EmptyMap, text |-> Absent]

\* The methods of the object createPersistentImageCache returns.
CacheMethods == {"get", "set", "has", "clear"}

\* cleanupCache: calls imageUrlCache.keys() and imageUrlCache.delete(key);
\* calling a method the object does not have throws a TypeError.
cleanupCache(m, t) ==
  IF "keys" \notin CacheMethods THEN [threw |-> TRUE, cache |-> m]
  ELSE LET old == {k \in DOMAIN m : m[k].t = "entry"
                                    /\ t - m[k].timestamp > IMAGE_URL_EXPIRATION}
       IN IF old # {} /\ "delete" \notin CacheMethods
          THEN [threw |-> TRUE, cache |-> m]
          ELSE [threw |-> FALSE, cache |-> [k \in DOMAIN m \ old |-> m[k]]]

\* The favorites initialiser: savedFavorites ? JSON.parse(savedFavorites) : [].
favoritesInit(text) ==
  IF text.kind = "absent" THEN [threw |-> FALSE, v |-> Arr(<<>>)]
  ELSE JSONparse(text)

\* ------------------------------------------------------------- getImageUrl
\* The age compared with the validity in seconds instead of milliseconds.
FreshSeconds(m, key, t) ==
  /\ key \in DOMAIN m
  /\ m[key].t = "entry"
  /\ t - m[key].timestamp < 3600

\* A cached value is used when it is truthy and young; a value without a
\* numeric timestamp gives NaN, and NaN < x is false.
Fresh(m, key, t) ==
  /\ key \in DOMAIN m
  /\ m[key].t = "entry"
  /\ t - m[key].timestamp < IMAGE_URL_EXPIRATION

\* The result slot of one getImageUrl call: st is "pending" while
\* getSignedUrl is in flight, "ok" when a url was returned, "null" when
\* null was returned; issued is the time getSignedUrl was called (-1: never).
HitSlot(u) == [st |-> "ok", url |-> u, issued |-> -1]
PendingSlot(t) == [st |-> "pending", url |-> NoUrl, issued |-> t]
OkSlot(u, t) == [st |-> "ok", url |-> u, issued |-> t]
NullSlot(t) == [st |-> "null", url |-> NoUrl, issued |-> t]

\* getImageUrl up to its await.
getImageUrlCall(m, key, t) ==
  IF Fresh(m, key, t) THEN HitSlot(m[key].url) ELSE PendingSlot(t)

\* The continuation that stamps the entry with the time of the call.
getImageUrlStampIssued(m, text, key, slot, t, writeOK) ==
  LET url == SignedUrl(key, slot.issued)
      r == cacheSet(m, text, key, Entry(url, slot.issued), writeOK)
  IN [cache |-> r.cache, text |-> r.text,
      slot |-> IF r.threw THEN NullSlot(slot.issued) ELSE OkSlot(url, slot.issued)]

\* getImageUrl after getSignedUrl resolved at time t: the set, inside the
\* try whose catch returns null.
getImageUrlResolved(m, text, key, slot, t, writeOK) ==
  LET url == SignedUrl(key, slot.issued)
      r == cacheSet(m, text, key, Entry(url, t), writeOK)
  IN [cache |-> r.cache, text |-> r.text,
      slot |-> IF r.threw THEN NullSlot(slot.issued) ELSE OkSlot(url, slot.issued)]

\* getImageUrl after getSignedUrl rejected: the catch returns null.
getImageUrlRejected(slot) == NullSlot(slot.issued)

\* -------------------------------------------------------- loadImagesFromS3
NullImage == [null |-> TRUE]

\* The record built even when the url is null.
ImageRecordAlways(object, slot) ==
  [id |-> object.Key, url |-> slot.url, lastModified |-> object.LastModified]

\* url ? {id, url, lastModified} : null.
ImageRecordOf(object, slot) ==
  IF slot.url # NoUrl
  THEN [id |-> object.Key, url |-> slot.url, lastModified |-> object.LastModified]
  ELSE NullImage

\* Promise.all: the results in the order of the listing.
processedImages(contents, slots) ==
  [i \in 1..Len(contents) |-> ImageRecordOf(contents[i], slots[i])]

FilterNotNull(s) == SelectSeq(s, LAMBDA r : r # NullImage)

\* Array.prototype.sort with (a, b) => b.lastModified - a.lastModified:
\* a stable sort, newest first: each record goes behind the records at least
\* as new that precede it in the input.
RECURSIVE SortByLastModified(_)
SortUnsorted(s) == s

SortByLastModified(s) ==
  IF s = <<>> THEN <<>>
  ELSE LET front == SortByLastModified(SubSeq(s, 1, Len(s) - 1))
           x == s[Len(s)]
       IN SelectSeq(front, LAMBDA y : y.lastModified >= x.lastModified)
            \o <<x>>
            \o SelectSeq(front, LAMBDA y : y.lastModified < x.lastModified)

filteredImages(contents, slots) ==
  SortByLastModified(FilterNotNull(processedImages(contents, slots)))

\* ------------------------------------------------------------- the inputs
\* The persisted cache record when the page is opened.  The entry of "a" is
\* exactly IMAGE_URL_EXPIRATION old at StartTime, the entry of "b" one
\* millisecond younger.
SavedEntries ==
  Json(Obj(<< <<"a", Entry(SignedUrl("a", 0), 0)>>,
              <<"b", Entry(SignedUrl("b", 1), 1)>> >>))

CacheTexts == { Absent, Garbage, Json(Null), Json(Str(<<"x">>)), SavedEntries }

\* The persisted favorites record when the page is opened.
FavTexts == { Absent, Garbage, Json(Arr(<<"a">>)) }

Object(k, lm) == [Key |-> k, LastModified |-> lm]

\* What the listing call can answer: no Contents, or objects in key order.
NoContents == <<>>
Listings ==
  { NoContents,
    <<Object("a", 100)>>,
    <<Object("a", 100), Object("b", 100)>>,
    <<Object("a", 100), Object("b", 200), Object("c", 50)>> }

Loads == 1..MaxLoads
IdleLoad == [pc |-> "idle", contents |-> <<>>, slots |-> <<>>,
             out |-> <<>>, outcome |-> "none"]

\* ------------------------------------------------------------------ state
VARIABLES
  phase,       \* "boot", "loaded", "moduleError", "mounted", "renderError"
  now,         \* Date.now()
  ticks,       \* how often the clock has moved
  cacheText,   \* localStorage["pixelLens-imageCache"]
  favText,     \* localStorage["pixelLens-favorites"]
  cache,       \* the Map inside imageUrlCache
  favorites,   \* the favorites state
  images,      \* the images state
  loading,     \* the loading state
  load,        \* the invocations of loadImagesFromS3
  urlCalls,    \* how many times getImageUrl has been called
  signCalls,   \* how many times getSignedUrl has been called
  uncaught,    \* the exceptions no handler caught
  timerAt,     \* when the cleanup interval was set or last fired
  writeFailures \* how many times localStorage.setItem has thrown

vars == <<phase, now, ticks, cacheText, favText, cache, favorites, images,
          loading, load, urlCalls, signCalls, uncaught, timerAt, writeFailures>>

\* The page is opened with any persisted records.
InitStore ==
  /\ phase = "boot"
  /\ now = StartTime
  /\ ticks = 0
  /\ cacheText \in CacheTexts
  /\ favText \in FavTexts
  /\ cache = EmptyMap
  /\ favorites = Arr(<<>>)
  /\ images = <<>>
  /\ loading = TRUE
  /\ load = [l \in Loads |-> IdleLoad]
  /\ urlCalls = 0
  /\ signCalls = 0
  /\ uncaught = {}
  /\ timerAt = StartTime
  /\ writeFailures = 0

\* The page is opened on a first visit or with the entries of an earlier one.
Init ==
  /\ phase = "boot"
  /\ now = StartTime
  /\ ticks = 0
  /\ cacheText \in {Absent, SavedEntries}
  /\ favText = Absent
  /\ cache = EmptyMap
  /\ favorites = Arr(<<>>)
  /\ images = <<>>
  /\ loading = TRUE
  /\ load = [l \in Loads |-> IdleLoad]
  /\ urlCalls = 0
  /\ signCalls = 0
  /\ uncaught = {}
  /\ timerAt = StartTime
  /\ writeFailures = 0

\* The module is evaluated: const imageUrlCache = createPersistentImageCache().
ModuleLoad ==
  /\ phase = "boot"
  /\ LET r == createPersistentImageCache(cacheText)
     IN /\ cache' = r.cache
        /\ phase' = IF r.threw THEN "moduleError" ELSE "loaded"
        /\ uncaught' = IF r.threw THEN uncaught \cup {"createPersistentImageCache"}
                       ELSE uncaught
  /\ UNCHANGED <<now, ticks, cacheText, favText, favorites, images, loading,
                 load, urlCalls, signCalls, timerAt, writeFailures>>

\* PhotoGallery renders for the first time: the useState initialisers run,
\* then the mount effects set the cleanup interval.
Mount ==
  /\ phase = "loaded"
  /\ LET r == favoritesInit(favText)
     IN /\ favorites' = IF r.threw THEN favorites ELSE r.v
        /\ phase' = IF r.threw THEN "renderError" ELSE "mounted"
        /\ uncaught' = IF r.threw THEN uncaught \cup {"favorites"} ELSE uncaught
  /\ images' = <<>>
  /\ loading' = TRUE
  /\ timerAt' = now
  /\ UNCHANGED <<now, ticks, cacheText, favText, cache, load, urlCalls,
                 signCalls, writeFailures>>

\* The cleanup interval is due.  A due timer runs before anything later
\* does: the clock moves in steps of one interval, so whatever happens after
\* a step happens after the callback that was due at that step.
SweepDue == phase = "mounted" /\ now - timerAt >= SWEEP_INTERVAL

\* Time passes (time before the mount is part of StartTime).
Tick ==
  /\ phase = "mounted"
  /\ ~SweepDue
  /\ ticks < MaxTicks
  /\ \E d \in TickSteps : now' = now + d
  /\ ticks' = ticks + 1
  /\ UNCHANGED <<phase, cacheText, favText, cache, favorites, images, loading,
                 load, urlCalls, signCalls, uncaught, timerAt, writeFailures>>

\* The interval fires cleanupCache.
Sweep ==
  /\ SweepDue
  /\ timerAt' = timerAt + SWEEP_INTERVAL
  /\ LET r == cleanupCache(cache, now)
     IN /\ cache' = r.cache
        /\ uncaught' = IF r.threw THEN uncaught \cup {"cleanupCache"} ELSE uncaught
  /\ UNCHANGED <<phase, now, ticks, cacheText, favText, favorites, images,
                 loading, load, urlCalls, signCalls, writeFailures>>

\* imageUrlCache.clear().
Clear ==
  /\ phase = "mounted"
  /\ ~SweepDue
  /\ LET r == cacheClear(cache, cacheText)
     IN /\ cache' = r.cache
        /\ cacheText' = r.text
  /\ UNCHANGED <<phase, now, ticks, favText, favorites, images, loading, load,
                 urlCalls, signCalls, uncaught, timerAt, writeFailures>>

\* imageUrlCache.set(key, {url, timestamp}) with a url signed now.
Set(key, writeOK) ==
  /\ phase = "mounted"
  /\ ~SweepDue
  /\ LET r == cacheSet(cache, cacheText, key, Entry(SignedUrl(key, now), now), writeOK)
     IN /\ cache' = r.cache
        /\ cacheText' = r.text
        /\ uncaught' = IF r.threw THEN uncaught \cup {"set"} ELSE uncaught
  /\ writeOK \/ writeFailures < MaxWriteFailures
  /\ writeFailures' = IF writeOK THEN writeFailures ELSE writeFailures + 1
  /\ UNCHANGED <<phase, now, ticks, favText, favorites, images, loading, load,
                 urlCalls, signCalls, timerAt>>

\* The settlement of an invocation that drops its result when a later
\* invocation has been started.
SettleLatestOnly(l, contents, slots) ==
  IF \E i \in 1..Len(slots) : slots[i].st = "pending"
  THEN /\ load' = [load EXCEPT ![l] = [@ EXCEPT !.pc = "signing",
                                                !.contents = contents,
                                                !.slots = slots]]
       /\ UNCHANGED <<images, loading>>
  ELSE /\ load' = [load EXCEPT ![l] = [pc |-> "done",
                                       contents |-> contents,
                                       slots |-> slots,
                                       out |-> filteredImages(contents, slots),
                                       outcome |-> "published"]]
       /\ images' = IF \E k \in Loads : k > l /\ load[k].pc # "idle"
                    THEN images ELSE filteredImages(contents, slots)
       /\ loading' = FALSE

\* What loadImagesFromS3 does once every getImageUrl call has settled
\* (Promise.all resolved): filter, sort, setImages, setLoading(false).
\* While a call is pending the invocation stays suspended.
Settle(l, contents, slots) ==
  IF \E i \in 1..Len(slots) : slots[i].st = "pending"
  THEN /\ load' = [load EXCEPT ![l] = [@ EXCEPT !.pc = "signing",
                                                !.contents = contents,
                                                !.slots = slots]]
       /\ UNCHANGED <<images, loading>>
  ELSE \E out \in {filteredImages(contents, slots)} :
         /\ load' = [load EXCEPT ![l] = [pc |-> "done",
                                         contents |-> contents,
                                         slots |-> slots,
                                         out |-> out,
                                         outcome |-> "published"]]
         /\ images' = out
         /\ loading' = FALSE

\* loadImagesFromS3 is called: setLoading(true), the listing call is sent.
StartLoad(l) ==
  /\ phase = "mounted"
  /\ ~SweepDue
  /\ load[l].pc = "idle"
  /\ \A k \in Loads : k < l => load[k].pc # "idle"
  /\ loading' = TRUE
  /\ load' = [load EXCEPT ![l].pc = "listing"]
  /\ UNCHANGED <<phase, now, ticks, cacheText, favText, cache, favorites,
                 images, urlCalls, signCalls, uncaught, timerAt, writeFailures>>

\* The no-Contents branch without its setImages([]).
ListEmptyKeepsImages(l) ==
  /\ ~SweepDue
  /\ load[l].pc = "listing"
  /\ loading' = FALSE
  /\ load' = [load EXCEPT ![l].pc = "done", ![l].outcome = "noContents"]
  /\ UNCHANGED <<phase, now, ticks, cacheText, favText, cache, favorites,
                 images, urlCalls, signCalls, uncaught, timerAt, writeFailures>>

\* The listing call resolves without Contents: setImages([]), setLoading(false).
ListEmpty(l) ==
  /\ ~SweepDue
  /\ load[l].pc = "listing"
  /\ images' = <<>>
  /\ loading' = FALSE
  /\ load' = [load EXCEPT ![l].pc = "done", ![l].outcome = "noContents"]
  /\ UNCHANGED <<phase, now, ticks, cacheText, favText, cache, favorites,
                 urlCalls, signCalls, uncaught, timerAt, writeFailures>>

\* The listing call resolves with Contents: getImageUrl is called for every
\* object, each call running to its await (or to its return, on a hit).
ListResolve(l, contents) ==
  /\ ~SweepDue
  /\ load[l].pc = "listing"
  /\ contents # NoContents
  /\ urlCalls + Len(contents) <= MaxUrlCalls
  /\ urlCalls' = urlCalls + Len(contents)
  /\ LET slots == [i \in 1..Len(contents) |->
                     getImageUrlCall(cache, contents[i].Key, now)]
     IN /\ signCalls' = signCalls
                        + Cardinality({i \in 1..Len(slots) : slots[i].st = "pending"})
        /\ Settle(l, contents, slots)
  /\ UNCHANGED <<phase, now, ticks, cacheText, favText, cache, favorites,
                 uncaught, timerAt, writeFailures>>

\* The catch branch without its setLoading(false).
ListRejectKeepsLoading(l) ==
  /\ ~SweepDue
  /\ load[l].pc = "listing"
  /\ load' = [load EXCEPT ![l].pc = "done", ![l].outcome = "caught"]
  /\ UNCHANGED <<phase, now, ticks, cacheText, favText, cache, favorites,
                 images, loading, urlCalls, signCalls, uncaught, timerAt,
                 writeFailures>>

\* The listing call rejects: the catch logs and calls setLoading(false).
ListReject(l) ==
  /\ ~SweepDue
  /\ load[l].pc = "listing"
  /\ loading' = FALSE
  /\ load' = [load EXCEPT ![l].pc = "done", ![l].outcome = "caught"]
  /\ UNCHANGED <<phase, now, ticks, cacheText, favText, cache, favorites,
                 images, urlCalls, signCalls, uncaught, timerAt, writeFailures>>

\* getSignedUrl resolves for the i-th object of invocation l; writeOK tells
\* whether localStorage.setItem succeeds.
SignResolve(l, i, writeOK) ==
  /\ ~SweepDue
  /\ load[l].pc = "signing"
  /\ i \in 1..Len(load[l].slots)
  /\ load[l].slots[i].st = "pending"
  /\ \E r \in {getImageUrlResolved(cache, cacheText, load[l].contents[i].Key,
                                    load[l].slots[i], now, writeOK)} :
        /\ cache' = r.cache
        /\ cacheText' = r.text
        /\ Settle(l, load[l].contents, [load[l].slots EXCEPT ![i] = r.slot])
  /\ writeOK \/ writeFailures < MaxWriteFailures
  /\ writeFailures' = IF writeOK THEN writeFailures ELSE writeFailures + 1
  /\ UNCHANGED <<phase, now, ticks, favText, favorites, urlCalls, signCalls, uncaught,
                 timerAt>>

\* A rejection that evicts the entry of the key.
SignRejectEvicts(l, i) ==
  /\ ~SweepDue
  /\ load[l].pc = "signing"
  /\ i \in 1..Len(load[l].slots)
  /\ load[l].slots[i].st = "pending"
  /\ cache' = [k \in DOMAIN cache \ {load[l].contents[i].Key} |-> cache[k]]
  /\ Settle(l, load[l].contents,
            [load[l].slots EXCEPT ![i] = getImageUrlRejected(load[l].slots[i])])
  /\ UNCHANGED <<phase, now, ticks, cacheText, favText, favorites,
                 urlCalls, signCalls, uncaught, timerAt, writeFailures>>

\* getSignedUrl rejects for the i-th object of invocation l.
SignReject(l, i) ==
  /\ ~SweepDue
  /\ load[l].pc = "signing"
  /\ i \in 1..Len(load[l].slots)
  /\ load[l].slots[i].st = "pending"
  /\ Settle(l, load[l].contents,
            [load[l].slots EXCEPT ![i] = getImageUrlRejected(load[l].slots[i])])
  /\ UNCHANGED <<phase, now, ticks, cacheText, favText, cache, favorites,
                 urlCalls, signCalls, uncaught, timerAt, writeFailures>>

MaxObjects == 3

\* The program: the page loads, the gallery mounts, the interval fires and
\* loadImagesFromS3 is invoked (nothing in the program calls clear).
Next ==
  \/ ModuleLoad
  \/ Mount
  \/ Tick
  \/ Sweep
  \/ \E l \in Loads : StartLoad(l)
  \/ \E l \in Loads : ListEmpty(l)
  \/ \E l \in Loads : \E contents \in Listings : ListResolve(l, contents)
  \/ \E l \in Loads : ListReject(l)
  \/ \E l \in Loads : \E i \in 1..MaxObjects : \E writeOK \in BOOLEAN :
       SignResolve(l, i, writeOK)
  \/ \E l \in Loads : \E i \in 1..MaxObjects : SignReject(l, i)

Spec == Init /\ [][Next]_vars

\* The listing call of invocation l settles, one way or another.
ListSettles(l) ==
  \/ ListEmpty(l)
  \/ \E contents \in Listings : ListResolve(l, contents)
  \/ ListReject(l)

\* The i-th getSignedUrl call of invocation l settles.
SignSettles(l, i) ==
  \/ \E writeOK \in BOOLEAN : SignResolve(l, i, writeOK)
  \/ SignReject(l, i)

\* The loader: the page loads, the gallery mounts and loadImagesFromS3 is
\* invoked.  The clock and the interval callback are left out: they touch
\* neither loading nor an invocation.
NextLoader ==
  \/ ModuleLoad
  \/ Mount
  \/ \E l \in Loads : StartLoad(l)
  \/ \E l \in Loads : ListSettles(l)
  \/ \E l \in Loads : \E i \in 1..MaxObjects : SignSettles(l, i)

\* Every request sent settles: the listing call of every invocation, and
\* every getSignedUrl call.
Settling ==
  /\ \A l \in Loads : WF_vars(ListSettles(l))
  /\ \A l \in Loads : \A i \in 1..MaxObjects : WF_vars(SignSettles(l, i))

\* The loader when every request it sends settles.
SpecSettling == Init /\ [][NextLoader]_vars /\ Settling

\* The cache object under its own operations.
StoreKeys == {"a", "b", "c"}

NextStore ==
  \/ ModuleLoad
  \/ Mount
  \/ Tick
  \/ Sweep
  \/ Clear
  \/ \E key \in StoreKeys : \E writeOK \in BOOLEAN : Set(key, writeOK)

SpecStore == InitStore /\ [][NextStore]_vars

\* ================================================================= claims
\* Invocation l leaves the listing call with Contents in this step: every
\* getImageUrl call of the invocation is made in it.
CallsMade(l) ==
  /\ load[l].pc = "listing"
  /\ load'[l].pc \in {"signing", "done"}
  /\ load'[l].outcome \in {"none", "published"}

\* The entry of key k is younger than the expiration window now.
YoungEntry(k) ==
  /\ k \in DOMAIN cache
  /\ cache[k].t = "entry"
  /\ now - cache[k].timestamp < IMAGE_URL_EXPIRATION

\* C1: a getImageUrl call for a key whose entry is younger than
\* IMAGE_URL_EXPIRATION returns the cached url, calls getSignedUrl for no
\* such key, and leaves the cache and the persisted record as they were.
C1_CacheHit ==
  [][\A l \in Loads :
       CallsMade(l) =>
         LET cs == load'[l].contents
             young == {i \in 1..Len(cs) : YoungEntry(cs[i].Key)}
         IN /\ \A i \in young :
                 /\ load'[l].slots[i].st = "ok"
                 /\ load'[l].slots[i].url = cache[cs[i].Key].url
                 /\ load'[l].slots[i].issued = -1
            /\ signCalls' - signCalls <= Len(cs) - Cardinality(young)
            /\ cache' = cache
            /\ cacheText' = cacheText]_vars

\* C1 witness: a call has returned the url of an entry aged
\* IMAGE_URL_EXPIRATION - 1, without a signing request.
C1_Witness ==
  \E l \in Loads : \E i \in 1..Len(load[l].slots) :
    LET k == load[l].contents[i].Key
    IN /\ load[l].slots[i].st = "ok"
       /\ load[l].slots[i].issued = -1
       /\ k \in DOMAIN cache
       /\ load[l].slots[i].url = cache[k].url
       /\ now - cache[k].timestamp = IMAGE_URL_EXPIRATION - 1

\* The i-th getSignedUrl of invocation l resolves in this step.
Resolved(l, i) ==
  /\ load[l].pc = "signing"
  /\ i \in 1..Len(load[l].slots)
  /\ load[l].slots[i].st = "pending"
  /\ load'[l].slots[i].st # "pending"
  /\ cache' # cache \/ cacheText' # cacheText \/ load'[l].slots[i].st = "ok"

\* C2: a getImageUrl call for a key with no entry, or one aged
\* IMAGE_URL_EXPIRATION or more, calls getSignedUrl exactly once; when that
\* resolves, the call returns the url signed at the call and the entry of
\* the key becomes {that url, the time of the resolution}.
C2_MissSignsOnce ==
  [][\A l \in Loads :
       /\ CallsMade(l) =>
            LET cs == load'[l].contents
                old == {i \in 1..Len(cs) : ~YoungEntry(cs[i].Key)}
            IN /\ \A i \in old : load'[l].slots[i] = PendingSlot(now)
               /\ signCalls' = signCalls + Cardinality(old)
       /\ \A i \in 1..MaxObjects :
            Resolved(l, i) =>
              LET k == load[l].contents[i].Key
                  u == SignedUrl(k, load[l].slots[i].issued)
              IN /\ load'[l].slots[i].st = "ok"
                 /\ load'[l].slots[i].url = u
                 /\ k \in DOMAIN cache'
                 /\ cache'[k] = Entry(u, now)
                 /\ signCalls' = signCalls]_vars

\* C2 witness: the entry of "a", which was IMAGE_URL_EXPIRATION old at the
\* call, now holds the url signed at the call and the later time at which
\* the request resolved.
C2_Witness ==
  \E l \in Loads : \E i \in 1..Len(load[l].slots) :
    /\ load[l].contents[i].Key = "a"
    /\ load[l].slots[i].st = "ok"
    /\ load[l].slots[i].issued = StartTime
    /\ "a" \in DOMAIN cache
    /\ cache["a"] = Entry(load[l].slots[i].url, StartTime + IMAGE_URL_EXPIRATION)
    /\ cacheText # Absent
    /\ signCalls = 1

\* The keys of the records of a list.
Ids(s) == {s[i].id : i \in 1..Len(s)}

\* C3: a rejected getSignedUrl makes getImageUrl return null and is not
\* tried again; the list an invocation publishes holds exactly one record
\* for each listed key whose call returned a url, none for the others.
C3_FailedDropped ==
  /\ \A l \in Loads :
       load[l].outcome = "published" =>
         LET cs == load[l].contents
             sl == load[l].slots
         IN /\ Ids(load[l].out) = {cs[i].Key : i \in {j \in 1..Len(cs) : sl[j].st = "ok"}}
            /\ \A i, j \in 1..Len(load[l].out) :
                 i # j => load[l].out[i].id # load[l].out[j].id
            /\ \A i \in 1..Len(cs) :
                 sl[i].st = "null" => cs[i].Key \notin Ids(load[l].out)
  /\ LET signed == {p \in Loads \X (1..MaxObjects) :
                      /\ p[2] <= Len(load[p[1]].slots)
                      /\ load[p[1]].slots[p[2]].issued # -1}
     IN signCalls = Cardinality(signed)

\* C3 witness: the listing was a, b, c, the request for b was rejected, and
\* the published list holds a and c.
C3_Witness ==
  \E l \in Loads :
    /\ load[l].outcome = "published"
    /\ Len(load[l].contents) = 3
    /\ load[l].slots[1].st = "ok"
    /\ load[l].slots[2].st = "null"
    /\ load[l].slots[3].st = "ok"
    /\ Len(load[l].out) = 2
    /\ load[l].out[1].id = "a"
    /\ load[l].out[2].id = "c"
    /\ images = load[l].out

\* The position of key k in a listing.
IndexOf(cs, k) == CHOOSE i \in 1..Len(cs) : cs[i].Key = k

\* C4: the list an invocation publishes is sorted by lastModified, newest
\* first, and is the same whatever the order in which the signing requests
\* completed: records of equal lastModified follow the listing.
C4_SortedNewestFirst ==
  \A l \in Loads :
    load[l].outcome = "published" =>
      LET out == load[l].out
      IN \A i, j \in 1..Len(out) :
           i < j =>
             \/ out[i].lastModified > out[j].lastModified
             \/ /\ out[i].lastModified = out[j].lastModified
                /\ IndexOf(load[l].contents, out[i].id)
                     < IndexOf(load[l].contents, out[j].id)

\* C4 witness: a (100), b (200), c (50) were listed, the request for c
\* resolved before the one for b, and the published list is b, a, c.
C4_Witness ==
  \E l \in Loads :
    /\ load[l].outcome = "published"
    /\ Len(load[l].out) = 3
    /\ load[l].out[1].id = "b"
    /\ load[l].out[2].id = "a"
    /\ load[l].out[3].id = "c"
    /\ {"b", "c"} \subseteq DOMAIN cache
    /\ cache["c"].url = load[l].out[3].url
    /\ cache["b"].url = load[l].out[1].url
    /\ cache["c"].timestamp < cache["b"].timestamp

\* C5: when the listing call fails, the image list is empty and loading is
\* false afterwards, and nothing is thrown.
C5_ListFailureEmpties ==
  [][\A l \in Loads :
       (load[l].pc = "listing" /\ load'[l].outcome = "caught") =>
         /\ images' = <<>>
         /\ loading' = FALSE
         /\ uncaught' = uncaught]_vars

\* The interval fires cleanupCache in this step.
SweepRuns == SweepDue /\ timerAt' # timerAt

\* The entry of key k is IMAGE_URL_EXPIRATION old or older now.
Expired(k) == cache[k].t = "entry" /\ now - cache[k].timestamp >= IMAGE_URL_EXPIRATION

\* C6: cleanupCache removes exactly the entries aged IMAGE_URL_EXPIRATION
\* or more, leaves the others untouched and throws nothing.
C6_SweepRemovesExpired ==
  [][SweepRuns =>
       /\ cache' = [k \in {x \in DOMAIN cache : ~Expired(x)} |-> cache[k]]
       /\ uncaught' = uncaught]_vars

\* The persisted cache record is not the serialisation of a key->entry object.
Malformed(text) ==
  \/ text.kind = "garbage"
  \/ text.kind = "json" /\ text.v.t # "obj"

\* C7: whatever the persisted cache record holds, constructing the cache
\* throws nothing, and a malformed record gives an empty cache.
C7_ConstructionNeverRaises ==
  phase \in {"loaded", "moduleError"} =>
    /\ phase = "loaded"
    /\ Malformed(cacheText) => cache = EmptyMap

\* A cache constructed from the persisted record has the mapping of the
\* cache in memory.
InStep ==
  LET r == createPersistentImageCache(cacheText)
  IN ~r.threw /\ r.cache = cache

\* C8: as long as no localStorage.setItem has thrown, after every set and
\* clear a cache constructed from the persisted record has the mapping of
\* the cache in memory; a step that empties the cache removes the record.
C8_PersistedInStep ==
  /\ []((phase = "mounted" /\ writeFailures = 0) => InStep)
  /\ [][(phase = "mounted" /\ cache # EmptyMap /\ cache' = EmptyMap)
          => cacheText' = Absent]_vars

\* C8 witness: after sets at two different times, without a failed write,
\* the persisted record is the serialisation of a two-entry mapping that
\* reads back as the cache in memory.
C8_Witness ==
  /\ phase = "mounted"
  /\ writeFailures = 0
  /\ DOMAIN cache = {"a", "c"}
  /\ cache["a"].timestamp = StartTime
  /\ cache["c"].timestamp = StartTime + IMAGE_URL_EXPIRATION
  /\ cacheText.kind = "json"
  /\ Len(cacheText.v.pairs) = 2
  /\ InStep

\* C9: when the localStorage.setItem of a set throws, the entry in memory
\* is still updated, the persisted record keeps its content, nothing is
\* thrown to the caller and getImageUrl returns the url just signed.
C9_WriteFailureTolerated ==
  [][writeFailures' # writeFailures =>
       /\ cacheText' = cacheText
       /\ uncaught' = uncaught
       /\ \E l \in Loads : \E i \in 1..Len(load[l].slots) :
            LET k == load[l].contents[i].Key
                u == SignedUrl(k, load[l].slots[i].issued)
            IN /\ load[l].slots[i].st = "pending"
               /\ load'[l].slots[i] = OkSlot(u, load[l].slots[i].issued)
               /\ k \in DOMAIN cache'
               /\ cache'[k] = Entry(u, now)]_vars

\* C9 witness: a write has failed, the call returned the signed url, the
\* entry in memory holds it and the persisted record does not.
C9_Witness ==
  /\ writeFailures = 1
  /\ \E l \in Loads : \E i \in 1..Len(load[l].slots) :
       LET k == load[l].contents[i].Key
       IN /\ load[l].slots[i].st = "ok"
          /\ load[l].slots[i].issued # -1
          /\ k \in DOMAIN cache
          /\ cache[k].url = load[l].slots[i].url
          /\ cacheText # Json(ObjectFromEntries(cache))
          /\ load[l].outcome = "published"
          /\ k \in Ids(images)

\* C10: a favorites record that cannot be parsed gives an empty favorites
\* list, and the initialiser throws nothing.
C10_CorruptFavoritesEmpty ==
  (phase \in {"mounted", "renderError"} /\ favText = Garbage) =>
    /\ phase = "mounted"
    /\ favorites = Arr(<<>>)

\* C11: when the listing call returns no objects, loadImagesFromS3 sets
\* the image list to empty and loading to false, calls getSignedUrl for
\* nothing and throws nothing.
C11_EmptyListing ==
  [][\A l \in Loads :
       (load[l].pc = "listing" /\ load'[l].outcome = "noContents") =>
         /\ images' = <<>>
         /\ loading' = FALSE
         /\ signCalls' = signCalls
         /\ urlCalls' = urlCalls
         /\ uncaught' = uncaught
         /\ load'[l].pc = "done"
         /\ load'[l].slots = <<>>]_vars

\* C11 witness: an earlier invocation had published a record, then an
\* invocation whose listing had no objects emptied the list.
C11_Witness ==
  \E l, k \in Loads :
    /\ load[l].outcome = "noContents"
    /\ load[k].outcome = "published"
    /\ load[k].out # <<>>
    /\ images = <<>>
    /\ loading = FALSE

\* C12: whenever getImageUrl returns a url from the cache, less than the
\* url's validity of EXPIRES_IN seconds has passed since the getSignedUrl
\* call that produced it, however long that call took.
C12_HitWithinValidity ==
  [][\A l \in Loads :
       CallsMade(l) =>
         \A i \in 1..Len(load'[l].contents) :
           load'[l].slots[i].issued = -1 =>
             now - load'[l].slots[i].url[2] < EXPIRES_IN * 1000]_vars

\* Invocation l completes in this step.
Completes(l) == load[l].pc # "done" /\ load'[l].pc = "done"

\* C13: overlapping invocations are neither coalesced nor cancelled: a step
\* of one invocation leaves every other invocation as it was, every
\* invocation that gets its urls publishes its own list, and the image list
\* changes only when an invocation completes, to that invocation's list: the
\* list shown is that of the invocation that updated it last.
C13_LastUpdateWins ==
  [][/\ \A l \in Loads :
          /\ (Completes(l) /\ load'[l].outcome = "published")
               => images' = load'[l].out
          /\ load'[l] # load[l]
               => \A k \in Loads \ {l} : load'[k] = load[k]
     /\ images' # images =>
          \E l \in Loads :
            /\ Completes(l)
            /\ load'[l].outcome \in {"published", "noContents"}
            /\ images' = load'[l].out]_vars

\* C13 witness: both invocations have completed, and the list shown is the
\* one of the invocation started first, which published last.
C13_Witness ==
  /\ load[1].outcome = "published"
  /\ load[2].outcome = "published"
  /\ load[1].out # load[2].out
  /\ images = load[1].out
  /\ loading = FALSE

\* Invocation l is suspended at an await.
InFlight(l) == load[l].pc \in {"listing", "signing"}

\* C14: when the listing call and every getSignedUrl call of an invocation
\* settle, the invocation eventually completes, and the completing step sets
\* loading to false; an invocation completes only in a step in which none of
\* its calls is left pending, and loading goes from true to false only in a
\* completing step: there is no timeout.
C14_LoadingFalseIffSettled ==
  /\ \A l \in Loads : InFlight(l) ~> (load[l].pc = "done")
  /\ [][/\ \A l \in Loads :
             /\ Completes(l) =>
                  /\ loading' = FALSE
                  /\ InFlight(l)
                  /\ \A i \in 1..Len(load'[l].slots) :
                       load'[l].slots[i].st # "pending"
             /\ (InFlight(l) /\ ~Completes(l)) => InFlight(l)'
        /\ (loading /\ ~loading') => \E l \in Loads : Completes(l)]_vars

\* C14 witness: an invocation whose two getSignedUrl calls have settled, one
\* resolved and one rejected, has completed, and loading is false.
C14_Witness ==
  \E l \in Loads :
    /\ load[l].pc = "done"
    /\ load[l].outcome = "published"
    /\ \E i, j \in 1..Len(load[l].slots) :
         /\ load[l].slots[i].st = "ok" /\ load[l].slots[i].issued >= 0
         /\ load[l].slots[j].st = "null"
    /\ loading = FALSE

\* The keys of the persisted cache record.
PersistedKeys(text) ==
  IF text.kind = "json" /\ text.v.t = "obj"
  THEN {text.v.pairs[i][1] : i \in 1..Len(text.v.pairs)}
  ELSE {}

\* The i-th getSignedUrl call of invocation l fails in this step.
Rejected(l, i) ==
  /\ load[l].pc = "signing"
  /\ i \in 1..Len(load[l].slots)
  /\ load[l].slots[i].st = "pending"
  /\ load'[l].slots[i].st = "null"

\* C15: once the gallery is mounted, no step of getImageUrl or
\* loadImagesFromS3 removes a key from the cache or from the persisted
\* record; the cache and the record change only in a sweep or when a
\* getSignedUrl call resolves, which touches the entry of its key alone; a
\* getSignedUrl call that fails leaves the cache and the record as they
\* were, an expired entry of its key included.
C15_EntriesNeverRemoved ==
  [][phase = "mounted" =>
       /\ ~SweepRuns =>
            /\ DOMAIN cache \subseteq DOMAIN cache'
            /\ PersistedKeys(cacheText) \subseteq PersistedKeys(cacheText')
       /\ (cache' # cache \/ cacheText' # cacheText) =>
            \/ SweepRuns
            \/ \E l \in Loads : \E i \in 1..MaxObjects :
                 /\ Resolved(l, i)
                 /\ load'[l].slots[i].st = "ok"
                 /\ DOMAIN cache' = DOMAIN cache \cup {load[l].contents[i].Key}
                 /\ \A k \in DOMAIN cache \ {load[l].contents[i].Key} :
                      cache'[k] = cache[k]
       /\ \A l \in Loads : \A i \in 1..MaxObjects :
            Rejected(l, i) => cache' = cache /\ cacheText' = cacheText]_vars

\* C15 witness: the getSignedUrl call for "a", made because the entry of "a"
\* had expired, has failed, and the expired entry is still in the cache and
\* in the persisted record.
C15_Witness ==
  \E l \in Loads : \E i \in 1..Len(load[l].slots) :
    /\ load[l].contents[i].Key = "a"
    /\ load[l].slots[i] = NullSlot(StartTime)
    /\ "a" \in DOMAIN cache
    /\ cache["a"] = Entry(SignedUrl("a", 0), 0)
    /\ Expired("a")
    /\ cacheText = SavedEntries

\* C16: in every reachable state loading is true whenever an invocation of
\* loadImagesFromS3 has started and not yet completed.
C16_LoadingWhileInFlight == (\E l \in Loads : InFlight(l)) => loading

====
